---- MODULE Spec2Model ----
(***************************************************************************)
(* Model of the temporal-region frame compositor of BlurToolPrototype:     *)
(*   src/blur_engine_advanced.py   BlurEngine (apply_blur_region,          *)
(*                                 process_video)                          *)
(*   src/blur_advanced_ui.py       AdvancedBlurUI (authoring workflow,     *)
(*                                 preview, video export, GIF export)      *)
(* A frame is one 8-bit channel over a small grid; the three channels of   *)
(* the program's frames are treated alike by every operation modelled.     *)
(***************************************************************************)
EXTENDS Integers, Sequences, FiniteSets, TLC

(***************************************************************************)
(* Bounds of the model.                                                    *)
(***************************************************************************)
FrameWidth == 3
FrameHeight == 2
TotalFrames == 4
MaxRegions == 2

(***************************************************************************)
(* Program constants.                                                      *)
(***************************************************************************)
OpenSentinel == -1
MinOpacityPct == 10
MaxOpacityPct == 100
FullReplacePct == 95
BlurWeightBoost == 12
SecondPassPct == 70
ThirdPassPct == 90
KernelBase == 15
KernelSpan == 86
PixelBase == 3
PixelSpan == 27
SimpleKernelBase == 3
SimpleKernelSpan == 48
AutoDetectIntensity == 15
WhiteValue == 255
BlackValue == 0
DefaultOpacity == 90

Min(a, b) == IF a <= b THEN a ELSE b
Max(a, b) == IF a >= b THEN a ELSE b

\* The list s without its i-th element (1-based).
RemoveAt(s, i) == [k \in 1 .. Len(s) - 1 |-> IF k < i THEN s[k] ELSE s[k + 1]]

Positions == (0 .. FrameWidth - 1) \X (0 .. FrameHeight - 1)

\* The k-th position of the grid in row-major order, k in 1 .. width * height.
PositionAt(k) == <<(k - 1) % FrameWidth, (k - 1) \div FrameWidth>>

\* The sum of f over the positions in S.
SumOver(S, f) ==
  LET partial[k \in 0 .. FrameWidth * FrameHeight] ==
        IF k = 0 THEN 0
        ELSE partial[k - 1] + (IF PositionAt(k) \in S THEN f[PositionAt(k)] ELSE 0)
  IN  partial[FrameWidth * FrameHeight]

\* cvRound: round to nearest, ties to even (n >= 0, d > 0).
RoundHalfEven(n, d) ==
  LET q == n \div d
      r == n % d
  IN  IF 2 * r < d THEN q
      ELSE IF 2 * r > d THEN q + 1
      ELSE IF q % 2 = 0 THEN q ELSE q + 1

RoundHalfUp(n, d) == (2 * n + d) \div (2 * d)

(***************************************************************************)
(* The decoded video: frame k.                                             *)
(***************************************************************************)
SourceFrame(k) ==
  [p \in Positions |-> (40 * k + 70 * p[1] + 30 * p[2] + 17) % 256]

(***************************************************************************)
(* BlurRegion (blur_engine_advanced.py:28-40).                             *)
(***************************************************************************)
BlurRegion(x, y, width, height, blur_type, intensity, start_frame, end_frame) ==
  [x |-> x, y |-> y, width |-> width, height |-> height,
   blur_type |-> blur_type, intensity |-> intensity,
   start_frame |-> start_frame, end_frame |-> end_frame]

\* The clip without the floor of 1 on the width and the height.
EngineClipWithoutFloor(region) ==
  LET x == Max(0, Min(region.x, FrameWidth))
      y == Max(0, Min(region.y, FrameHeight))
  IN  [x |-> x, y |-> y,
       width  |-> Min(region.width, FrameWidth - x),
       height |-> Min(region.height, FrameHeight - y)]

(***************************************************************************)
(* apply_blur_region, lines 127-130: the clipped rect.                     *)
(***************************************************************************)
EngineClip(region) ==
  LET x == Max(0, Min(region.x, FrameWidth))
      y == Max(0, Min(region.y, FrameHeight))
  IN  [x |-> x, y |-> y,
       width  |-> Max(1, Min(region.width, FrameWidth - x)),
       height |-> Max(1, Min(region.height, FrameHeight - y))]

\* frame[y:y+height, x:x+width]: the positions the slice covers (numpy
\* truncates a slice at the array's edge).
RoiPositions(c) ==
  {p \in Positions : /\ c.x <= p[1] /\ p[1] < c.x + c.width
                     /\ c.y <= p[2] /\ p[2] < c.y + c.height}

\* The opacity taken from the stored intensity as it is.
OpacityPctUnclamped(intensity) == intensity

\* lines 137-138: opacity, in percent.
OpacityPct(intensity) == Max(MinOpacityPct, Min(MaxOpacityPct, intensity))

\* The kernel size without the step that makes it odd.
AdvancedKernelSizeAsComputed(pct) == (KernelBase * 100 + pct * KernelSpan) \div 100

\* lines 142-144: int(15 + opacity * 86), made odd.
AdvancedKernelSize(pct) ==
  LET k == (KernelBase * 100 + pct * KernelSpan) \div 100
  IN  IF k % 2 = 0 THEN k + 1 ELSE k

\* blur_engine.py, lines 142-144: int(3 + opacity * 48), made odd.
SimpleKernelSize(pct) ==
  LET k == (SimpleKernelBase * 100 + pct * SimpleKernelSpan) \div 100
  IN  IF k % 2 = 0 THEN k + 1 ELSE k

\* lines 146-152: number of GaussianBlur passes.
GaussianPasses(pct) ==
  1 + (IF pct > SecondPassPct THEN 1 ELSE 0) + (IF pct > ThirdPassPct THEN 1 ELSE 0)

\* line 155: max(3, int(3 + opacity * 27)).
AdvancedPixelSize(pct) == Max(PixelBase, (PixelBase * 100 + pct * PixelSpan) \div 100)

(***************************************************************************)
(* cv2.GaussianBlur on the ROI (OpenCV, outside the repository).  The      *)
(* kernel (>= 23) is wider than any ROI of the model, so every output      *)
(* pixel mixes all ROI pixels and nothing outside the ROI; the model takes *)
(* the rounded mean of the ROI, once per pass.                             *)
(***************************************************************************)
GaussianPass(buf, roi) ==
  LET mean == RoundHalfEven(SumOver(roi, buf), Cardinality(roi))
  IN  [p \in Positions |-> IF p \in roi THEN mean ELSE buf[p]]

\* lines 145-152: one pass, a second one and a third one (passes is 1, 2 or 3).
GaussianBlur(buf, roi, passes) ==
  IF passes >= 3 THEN GaussianPass(GaussianPass(GaussianPass(buf, roi), roi), roi)
  ELSE IF passes >= 2 THEN GaussianPass(GaussianPass(buf, roi), roi)
  ELSE GaussianPass(buf, roi)

(***************************************************************************)
(* lines 156-157: cv2.resize down (bilinear) to sw x sh, then back up with *)
(* INTER_NEAREST.                                                          *)
(***************************************************************************)
BilinearSample(buf, c, sw, sh, i, j) ==
  LET nx  == Max(0, (2 * i + 1) * c.width - sw)
      ny  == Max(0, (2 * j + 1) * c.height - sh)
      x0  == nx \div (2 * sw)
      y0  == ny \div (2 * sh)
      fx  == nx % (2 * sw)
      fy  == ny % (2 * sh)
      x1  == Min(x0 + 1, c.width - 1)
      y1  == Min(y0 + 1, c.height - 1)
      v(a, b) == buf[<<c.x + a, c.y + b>>]
      num == (2 * sw - fx) * (2 * sh - fy) * v(x0, y0)
             + fx * (2 * sh - fy) * v(x1, y0)
             + (2 * sw - fx) * fy * v(x0, y1)
             + fx * fy * v(x1, y1)
  IN  RoundHalfUp(num, 4 * sw * sh)

Pixelate(buf, c, pixel_size) ==
  LET sw == Max(1, c.width \div pixel_size)
      sh == Max(1, c.height \div pixel_size)
  IN  [p \in Positions |->
         IF p \in RoiPositions(c)
         THEN BilinearSample(buf, c, sw, sh,
                             ((p[1] - c.x) * sw) \div c.width,
                             ((p[2] - c.y) * sh) \div c.height)
         ELSE buf[p]]

\* lines 140-163: blurred_roi, as a buffer that differs from buf on the ROI only.
Transform(buf, c, blur_type, pct) ==
  LET roi == RoiPositions(c)
  IN  CASE blur_type = "gaussian"  -> GaussianBlur(buf, roi, GaussianPasses(pct))
        [] blur_type = "pixelate"  -> Pixelate(buf, c, AdvancedPixelSize(pct))
        [] blur_type = "black_box" -> [p \in Positions |-> IF p \in roi THEN BlackValue ELSE buf[p]]
        [] blur_type = "white_box" -> [p \in Positions |-> IF p \in roi THEN WhiteValue ELSE buf[p]]
        [] OTHER -> buf

\* Blend without the 1.2 boost of line 173 (blur_weight = opacity): a fill
\* at intensity 84 would let the original show through.
BlendUnboosted(original, transformed, pct) ==
  IF pct >= FullReplacePct THEN transformed
  ELSE LET blur_weight == Min(1000, 10 * pct)
           original_weight == 1000 - blur_weight
       IN  RoundHalfEven(original * original_weight + transformed * blur_weight, 1000)

\* lines 167-176: one pixel of the blend (cv2.addWeighted rounds with cvRound).
\* The blend without the cap of the boosted weight at 1.
BlendUncapped(original, transformed, pct) ==
  IF pct >= FullReplacePct THEN transformed
  ELSE LET blur_weight == BlurWeightBoost * pct
           original_weight == 1000 - blur_weight
       IN  RoundHalfEven(original * original_weight + transformed * blur_weight, 1000)

Blend(original, transformed, pct) ==
  IF pct >= FullReplacePct THEN transformed
  ELSE LET blur_weight == Min(1000, BlurWeightBoost * pct)
           original_weight == 1000 - blur_weight
       IN  RoundHalfEven(original * original_weight + transformed * blur_weight, 1000)

\* apply_blur_region pasting the region of interest on an empty frame
\* instead of a copy of the frame: pixels outside the rect come out black.
BlendRoiOnEmptyFrame(buf, raises, roi, pct, blurred) ==
  IF roi = {}
  THEN [result |-> buf, input_after |-> buf, same_object |-> TRUE, path |-> "empty_roi"]
  ELSE IF raises
  THEN [result |-> buf, input_after |-> buf, same_object |-> TRUE, path |-> "error"]
  ELSE [result |-> [p \in Positions |->
                      IF p \in roi THEN Blend(buf[p], blurred[p], pct) ELSE BlackValue],
        input_after |-> buf, same_object |-> FALSE, path |-> "applied"]

\* apply_blur_region whose handler returns the half-finished result instead
\* of the frame it was given.
BlendRoiKeepsPartialResult(buf, raises, roi, pct, blurred) ==
  IF roi = {}
  THEN [result |-> buf, input_after |-> buf, same_object |-> TRUE, path |-> "empty_roi"]
  ELSE IF raises
  THEN [result |-> blurred, input_after |-> buf, same_object |-> FALSE, path |-> "error"]
  ELSE [result |-> [p \in Positions |->
                      IF p \in roi THEN Blend(buf[p], blurred[p], pct) ELSE buf[p]],
        input_after |-> buf, same_object |-> FALSE, path |-> "applied"]

(***************************************************************************)
(* apply_blur_region, lines 132-181, once the rect is clipped: the three   *)
(* ways out.  raises: a call inside the try block raises (cv2.error,       *)
(* MemoryError).  same_object tells whether the value returned is the very *)
(* buffer that was passed in (`return frame`); input_after is what that    *)
(* buffer holds afterwards.                                                *)
(***************************************************************************)
BlendRoi(buf, raises, roi, pct, blurred) ==
  IF roi = {}
  THEN [result |-> buf, input_after |-> buf, same_object |-> TRUE, path |-> "empty_roi"]
  ELSE IF raises
  THEN [result |-> buf, input_after |-> buf, same_object |-> TRUE, path |-> "error"]
  ELSE [result |-> [p \in Positions |->
                      IF p \in roi THEN Blend(buf[p], blurred[p], pct) ELSE buf[p]],
        input_after |-> buf, same_object |-> FALSE, path |-> "applied"]

\* lines 132-176 for the clipped rect c and the opacity pct.
BlurClipped(buf, raises, c, blur_type, pct) ==
  BlendRoi(buf, raises, RoiPositions(c), pct, Transform(buf, c, blur_type, pct))

(***************************************************************************)
(* apply_blur_region (lines 124-181).                                      *)
(***************************************************************************)
ApplyBlurRegion(buf, region, raises) ==
  BlurClipped(buf, raises, EngineClip(region), region.blur_type,
              OpacityPct(region.intensity))


(***************************************************************************)
(* State.                                                                  *)
(***************************************************************************)
VARIABLES
  video_frames,       \* number of frames the video at the input path decodes to
  blur_regions,       \* process_video argument
  auto_detect,        \* process_video argument
  eng_pc,             \* "idle" | "call" | "loop" | "returned"
  cap_state,          \* cv2.VideoCapture: "none" | "unopened" | "open" | "released"
  out_state,          \* cv2.VideoWriter:  "none" | "unopened" | "opened" | "released"
  frame_count,        \* process_video local
  decoded,            \* frames cap.read() has returned
  pii_regions_total,  \* process_video local
  results,            \* the dict process_video returns
  frame,              \* the buffer last handed to out.write
  calls,              \* the apply_blur_region calls made for that frame
  writes,             \* decode index of the frame of each out.write call
  out_file,           \* frames the writer has put in the output file
  \* AdvancedBlurUI
  regions,            \* self.regions: the confirmed rectangles
  pending_rectangle,  \* self.pending_rectangle: <<>> (None) or <<rect>>
  held_rectangle,     \* self.held_rectangle: <<>> (None) or <<rect>>
  rectangle_held,     \* self.rectangle_held
  opacity_var, blur_type_var, duration_var, start_second_var,
  current_second,     \* self.current_second
  saved_file,         \* <<>> or <<text>>: the file save_regions last wrote
  saved_from,         \* self.regions as it was when that file was written
  video_size,         \* <<width, height>> the capture of self.video_path reports
  gif_shapes,         \* <<width, height>> of each frame appended to the GIF's frames
  ui_pc,              \* where the UI thread is: "none" (no UI), "idle" (main loop), ...
  gif_frame_count,    \* export_as_gif local frame_count
  frame_skip,         \* export_as_gif local frame_skip (0 outside an export)
  gif_processed,      \* export_as_gif local processed_count
  target_frames,      \* export_as_gif local target_frames (0 outside an export)
  duration_ms,        \* export_as_gif local duration_ms (0 until computed)
  gif_log,            \* per frame composited for the GIF: what it was composited with
  preview_log,        \* the same for the frame of the open preview
  video_log           \* the same for the frames of the last video export

engVars == <<video_frames, blur_regions, auto_detect, eng_pc, cap_state, out_state,
             frame_count, decoded, pii_regions_total, results, frame, calls,
             writes, out_file>>

uiVars == <<regions, pending_rectangle, held_rectangle, rectangle_held, opacity_var,
            blur_type_var, duration_var, start_second_var, current_second,
            saved_file, saved_from, video_size, gif_shapes, ui_pc,
            gif_frame_count, frame_skip, gif_processed, target_frames,
            duration_ms, gif_log, preview_log, video_log>>

vars == <<engVars, uiVars>>

\* The membership test with an exclusive upper bound.
EngineActiveExclusiveEnd(region, f) ==
  \/ (region.start_frame <= f /\ f < region.end_frame)
  \/ (region.start_frame <= f /\ region.end_frame = OpenSentinel)

(***************************************************************************)
(* process_video, lines 219-220: the test that selects a region at a       *)
(* frame.                                                                  *)
(***************************************************************************)
EngineActive(region, f) ==
  \/ (region.start_frame <= f /\ f <= region.end_frame)
  \/ (region.start_frame <= f /\ region.end_frame = OpenSentinel)

\* One apply_blur_region call, as the log keeps it: which region, which
\* return path, whether the returned value is the argument itself, whether
\* the argument buffer still holds what it held, and whether the returned
\* pixels differ from the argument's.
LoggedCall(index, region, buf, r) ==
  [index |-> index, region |-> region,
   path |-> r.path, same_object |-> r.same_object,
   input_kept |-> (r.input_after = buf),
   changed |-> (r.result # buf),
   result |-> r.result]

CallRecord(index, region, buf, raises) ==
  LoggedCall(index, region, buf, ApplyBlurRegion(buf, region, raises))

\* `frame = self.apply_blur_region(frame, ...)`: the frame becomes what the
\* call returned.
Rebind(before, c) == [before EXCEPT !.buf = c.result, !.log = Append(@, c)]

\* lines 219-221: one region of the list.
ApplyOneRegion(before, index, region, f, raises) ==
  IF EngineActive(region, f)
  THEN Rebind(before, CallRecord(index, region, before.buf, raises))
  ELSE before

\* lines 218-221: `frame = self.apply_blur_region(frame, region)` for each
\* region in list order; fail_at is the index whose call raises (0: none).
ApplyManualRegions(buf, region_list, f, fail_at) ==
  LET after[i \in 0 .. Len(region_list)] ==
        IF i = 0 THEN [buf |-> buf, log |-> <<>>, found |-> 0]
        ELSE ApplyOneRegion(after[i - 1], i, region_list[i], f, i = fail_at)
  IN  after[Len(region_list)]

\* detect_text_regions (lines 89-106): a threshold-and-contour heuristic
\* over the frame's pixels, outside the compositor; here, a bright pixel at
\* the frame's origin makes it report one rect.
DetectTextRegions(buf) ==
  IF buf[<<0, 0>>] > 127 THEN <<(<<1, 0, 2, 1>>)>> ELSE <<>>

\* lines 229-237: the region synthesized for one detected rect, applied.
ApplyDetectedRect(before, rect, f) ==
  Rebind(before,
         CallRecord(0, BlurRegion(rect[1], rect[2], rect[3], rect[4],
                                  "gaussian", AutoDetectIntensity, f, f),
                    before.buf, FALSE))

\* lines 225-237: pii_regions_total += len(text_regions), then the loop
\* over the rects.
ApplyDetected(manual, rects, f) ==
  LET after[i \in 0 .. Len(rects)] ==
        IF i = 0 THEN [manual EXCEPT !.found = Len(rects)]
        ELSE ApplyDetectedRect(after[i - 1], rects[i], f)
  IN  after[Len(rects)]

\* lines 223-237: the auto-detect block.
ApplyAutoDetect(manual, detect, f) ==
  ApplyDetected(manual, IF detect THEN DetectTextRegions(manual.buf) ELSE <<>>, f)

\* lines 212-239: the frame handed to out.write for decode index f (buf),
\* the log of the calls made for it and the number of rects detected.
CompositeFrame(region_list, detect, f, fail_at) ==
  ApplyAutoDetect(ApplyManualRegions(SourceFrame(f), region_list, f, fail_at), detect, f)

InitialResults ==
  [processing_successful |-> FALSE, total_frames |-> 0,
   pii_regions_detected |-> 0, error |-> "None"]

\* process_video creating the writer before it tests cap.isOpened().
EngineOpenFailsAfterSinkCreated ==
  /\ eng_pc = "call"
  /\ cap_state' = "unopened"
  /\ out_state' = "opened"
  /\ results' = [results EXCEPT !.error = "Could not open video"]
  /\ eng_pc' = "returned"
  /\ UNCHANGED <<video_frames, blur_regions, auto_detect, frame_count,
                 decoded, pii_regions_total, frame, calls, writes, out_file>>

(***************************************************************************)
(* process_video, lines 193-197: the source cannot be opened.              *)
(***************************************************************************)
EngineOpenFails ==
  /\ eng_pc = "call"
  /\ cap_state' = "unopened"
  /\ results' = [results EXCEPT !.error = "Could not open video"]
  /\ eng_pc' = "returned"
  /\ UNCHANGED <<video_frames, blur_regions, auto_detect, out_state, frame_count,
                 decoded, pii_regions_total, frame, calls, writes, out_file>>

(***************************************************************************)
(* lines 194-210: the source opens; the writer is created (cv2.VideoWriter *)
(* does not raise when it cannot open the output: it stays unopened).      *)
(***************************************************************************)
EngineOpen ==
  /\ eng_pc = "call"
  /\ cap_state' = "open"
  /\ results' = [results EXCEPT !.total_frames = video_frames]
  /\ \E sink_ok \in BOOLEAN :
       out_state' = IF sink_ok THEN "opened" ELSE "unopened"
  /\ frame_count' = 0
  /\ pii_regions_total' = 0
  /\ eng_pc' = "loop"
  /\ UNCHANGED <<video_frames, blur_regions, auto_detect, decoded, frame, calls,
                 writes, out_file>>

\* The loop writing only the frames some region was applied to.
EngineFrameWritesChangedOnly ==
  /\ eng_pc = "loop"
  /\ frame_count < video_frames
  /\ \E fail_at \in 0 .. Len(blur_regions) :
       \E done \in {CompositeFrame(blur_regions, auto_detect, frame_count, fail_at)} :
           /\ frame' = done.buf
           /\ calls' = done.log
           /\ pii_regions_total' = pii_regions_total + done.found
           /\ writes' = IF done.log # <<>> THEN Append(writes, frame_count) ELSE writes
           /\ out_file' = IF out_state = "opened" /\ done.log # <<>>
                          THEN out_file + 1 ELSE out_file
  /\ decoded' = decoded + 1
  /\ frame_count' = frame_count + 1
  /\ UNCHANGED <<video_frames, blur_regions, auto_detect, eng_pc, cap_state,
                 out_state, results>>

(***************************************************************************)
(* lines 212-243: one iteration of the loop for a frame that decodes.  An  *)
(* unopened writer ignores the frame silently.                             *)
(***************************************************************************)
EngineFrame ==
  /\ eng_pc = "loop"
  /\ frame_count < video_frames
  /\ \E fail_at \in 0 .. Len(blur_regions) :
       \E done \in {CompositeFrame(blur_regions, auto_detect, frame_count, fail_at)} :
           /\ frame' = done.buf
           /\ calls' = done.log
           /\ pii_regions_total' = pii_regions_total + done.found
  /\ decoded' = decoded + 1
  /\ writes' = Append(writes, frame_count)
  /\ out_file' = IF out_state = "opened" THEN out_file + 1 ELSE out_file
  /\ frame_count' = frame_count + 1
  /\ UNCHANGED <<video_frames, blur_regions, auto_detect, eng_pc, cap_state,
                 out_state, results>>

(***************************************************************************)
(* lines 213-215 and 245-251: cap.read() returns ret = False at the end of *)
(* the stream; success is reported and both handles are released.          *)
(***************************************************************************)
EngineFinish ==
  /\ eng_pc = "loop"
  /\ frame_count = video_frames
  /\ results' = [results EXCEPT !.pii_regions_detected = pii_regions_total,
                                !.processing_successful = TRUE]
  /\ cap_state' = "released"
  /\ out_state' = "released"
  /\ eng_pc' = "returned"
  /\ UNCHANGED <<video_frames, blur_regions, auto_detect, frame_count, decoded,
                 pii_regions_total, frame, calls, writes, out_file>>

\* The handler running after the success flag has been set.
EngineRaisesAfterSuccess ==
  /\ eng_pc = "loop"
  /\ results' = [results EXCEPT !.error = "exception",
                                !.processing_successful = TRUE]
  /\ eng_pc' = "returned"
  /\ UNCHANGED <<video_frames, blur_regions, auto_detect, cap_state, out_state,
                 frame_count, decoded, pii_regions_total, frame, calls, writes,
                 out_file>>

(***************************************************************************)
(* lines 253-255: a call of the loop raises outside apply_blur_region (the *)
(* decoder, in cap.read()); the handler records the error and the function *)
(* returns.                                                                *)
(***************************************************************************)
EngineRaises ==
  /\ eng_pc = "loop"
  /\ results' = [results EXCEPT !.error = "exception"]
  /\ eng_pc' = "returned"
  /\ UNCHANGED <<video_frames, blur_regions, auto_detect, cap_state, out_state,
                 frame_count, decoded, pii_regions_total, frame, calls, writes,
                 out_file>>

NextEngine ==
  \/ EngineOpenFails /\ UNCHANGED uiVars
  \/ EngineOpen /\ UNCHANGED uiVars
  \/ EngineFrame /\ UNCHANGED uiVars
  \/ EngineFinish /\ UNCHANGED uiVars
  \/ EngineRaises /\ UNCHANGED uiVars

(***************************************************************************)
(* Inputs of a direct call of process_video.                               *)
(***************************************************************************)
TemporalRanges == {<<1, 2>>, <<2, OpenSentinel>>, <<3, 1>>}

Effects == {<<"gaussian", 90>>, <<"pixelate", 50>>, <<"white_box", 100>>}

Rects == {<<FrameWidth, 0, 1, 1>>, <<-1, 1, 0, 9>>}

RegionPool ==
  {BlurRegion(0, 0, 2, 1, "black_box", 100, t[1], t[2]) : t \in TemporalRanges}
  \cup {BlurRegion(1, 0, 2, 2, e[1], e[2], 0, OpenSentinel) : e \in Effects}
  \cup {BlurRegion(g[1], g[2], g[3], g[4], "white_box", 100, 0, OpenSentinel) : g \in Rects}

RegionLists(pool) == UNION {[1 .. n -> pool] : n \in 0 .. MaxRegions}

EngineIdleState ==
  /\ cap_state = "none"
  /\ out_state = "none"
  /\ frame_count = 0
  /\ decoded = 0
  /\ pii_regions_total = 0
  /\ results = InitialResults
  /\ frame = SourceFrame(0)
  /\ calls = <<>>
  /\ writes = <<>>
  /\ out_file = 0

\* The size of the video loaded in the UI.
DefaultVideoSize == <<640, 480>>

\* No UI: process_video is called directly.
NoUI ==
  /\ regions = <<>>
  /\ pending_rectangle = <<>>
  /\ held_rectangle = <<>>
  /\ rectangle_held = FALSE
  /\ opacity_var = DefaultOpacity
  /\ blur_type_var = "gaussian"
  /\ duration_var = 1
  /\ start_second_var = ""
  /\ current_second = 0
  /\ saved_file = <<>>
  /\ saved_from = <<>>
  /\ video_size = DefaultVideoSize
  /\ gif_shapes = <<>>
  /\ ui_pc = "none"
  /\ gif_frame_count = 0
  /\ gif_processed = 0
  /\ frame_skip = 0
  /\ target_frames = 0
  /\ duration_ms = 0
  /\ gif_log = <<>>
  /\ preview_log = <<>>
  /\ video_log = <<>>

InitEngine ==
  /\ NoUI
  /\ video_frames = TotalFrames
  /\ blur_regions \in RegionLists(RegionPool)
  /\ auto_detect \in BOOLEAN
  /\ eng_pc = "call"
  /\ EngineIdleState

SpecEngine == InitEngine /\ [][NextEngine]_vars


(***************************************************************************)
(* Inputs for the stacking of two solid fills: R1 black, R2 white, every   *)
(* stored intensity of [10, 100] on one side against a few on the other.   *)
(***************************************************************************)
StackLevels == {50, 84, 100}

StackIntensities ==
  ((MinOpacityPct .. MaxOpacityPct) \X StackLevels)
  \cup (StackLevels \X (MinOpacityPct .. MaxOpacityPct))

StackRects == {<<(<<0, 0, 2, 2>>), (<<1, 0, 2, 1>>)>>, <<(<<0, 0, 2, 1>>), (<<0, 0, 2, 1>>)>>}

InitStack ==
  /\ NoUI
  /\ video_frames = TotalFrames
  /\ \E i \in StackIntensities, g \in StackRects :
       blur_regions =
         <<BlurRegion(g[1][1], g[1][2], g[1][3], g[1][4], "black_box", i[1], 0, OpenSentinel),
           BlurRegion(g[2][1], g[2][2], g[2][3], g[2][4], "white_box", i[2], 0, OpenSentinel)>>
  /\ auto_detect = FALSE
  /\ eng_pc = "call"
  /\ EngineIdleState

SpecStack == InitStack /\ [][NextEngine]_vars

(***************************************************************************)
(* One region with a rect anywhere around the frame, or with any stored    *)
(* intensity and effect.                                                   *)
(***************************************************************************)
ClipXs == {-1, 0, FrameWidth - 1, FrameWidth, FrameWidth + 1}
ClipYs == {-1, 0, FrameHeight}
ClipWidths == {-2, 0, 1, FrameWidth + 1}
ClipHeights == {0, 1, FrameHeight + 2}

StoredIntensities ==
  {-20, 0, 5} \cup ((MinOpacityPct - 1) .. (MaxOpacityPct + 1)) \cup {150}

BlurTypes == {"gaussian", "pixelate", "black_box", "white_box"}

ClipPool ==
  {BlurRegion(x, y, w, h, "white_box", 100, 0, OpenSentinel) :
     x \in ClipXs, y \in ClipYs, w \in ClipWidths, h \in ClipHeights}
  \cup {BlurRegion(0, 0, 2, 2, t, i, 0, OpenSentinel) :
          t \in BlurTypes, i \in StoredIntensities}

InitClip ==
  /\ NoUI
  /\ video_frames = TotalFrames
  /\ \E region \in ClipPool : blur_regions = <<region>>
  /\ auto_detect = FALSE
  /\ eng_pc = "call"
  /\ EngineIdleState

SpecClip == InitClip /\ [][NextEngine]_vars

(***************************************************************************)
(* AdvancedBlurUI (blur_advanced_ui.py).                                   *)
(***************************************************************************)
\* video_info['fps'] of the loaded video.
Fps == 3

\* Frames of the video the UI has loaded (the GIF loop hands control to the
\* event loop every GifUpdateEvery composited frames).
UiVideoFrames == 6

GifUpdateEvery == 5
TargetFramesHigh == 60
TargetFramesLow == 15
MinDragPixels == 10

\* The displayed photo: PhotoScale canvas pixels per video pixel, the canvas
\* exactly as large as the photo (offsets 0).
PhotoScale == 20

\* Mouse gestures: <<x1, y1, x2, y2>> on the canvas; the second is too small
\* to make a rectangle.
Gestures == {<<0, 0, 2 * PhotoScale, PhotoScale>>, <<3, 3, 8, 8>>}

\* The gestures of the hold workflow: a second rectangle, dragged from its
\* lower right corner, besides the first.
HoldGestures ==
  Gestures \cup {<<3 * PhotoScale, 2 * PhotoScale, PhotoScale, 0>>}

\* The positions of the intensity slider used (from_=10, to=100,
\* resolution=5, lines 335-341).
IntensityValues == {10, DefaultOpacity, 100}

Abs(n) == IF n < 0 THEN -n ELSE n

\* Region files a user may pick in load_regions.
RegionFiles ==
  {<<BlurRegion(0, 0, 2, 1, "gaussian", 90, 0, OpenSentinel)>>,
   <<BlurRegion(1, 0, 2, 2, "white_box", 100, 0, 3),
     BlurRegion(0, 0, 2, 1, "black_box", 50, 2, OpenSentinel)>>,
   <<>>}

SecondStrings == <<"0", "1", "2", "3", "4", "5", "6", "7", "8", "9">>

\* str(n) for a small non-negative n.
Str(n) == SecondStrings[n + 1]

\* int(float(s)) of lines 1154, 1222, 1288; -1 stands for ValueError.
ParseSecond(s) ==
  IF \E n \in 1 .. Len(SecondStrings) : SecondStrings[n] = s
  THEN (CHOOSE n \in 1 .. Len(SecondStrings) : SecondStrings[n] = s) - 1
  ELSE -1

MaxSeconds == UiVideoFrames \div Fps

\* The duration slider's range in the model (from_=1, line 438).
MaxDuration == 2

\* Texts typed into the start entry: empty, not a number, the last second
\* of the video.
TypedTexts == {"", "abc", Str(MaxSeconds)}

\* json.dump of an int: its decimal digits, "-" first when negative.
NatToText(n) ==
  IF n < 10 THEN <<Str(n)>>
  ELSE IF n < 100 THEN <<Str(n \div 10), Str(n % 10)>>
  ELSE <<Str(n \div 100), Str((n \div 10) % 10), Str(n % 10)>>

IntToText(n) == IF n < 0 THEN <<"-">> \o NatToText(-n) ELSE NatToText(n)

\* json.load of a number token.
DigitsToNat(digits) ==
  LET value[k \in 0 .. Len(digits)] ==
        IF k = 0 THEN 0 ELSE 10 * value[k - 1] + ParseSecond(digits[k])
  IN  value[Len(digits)]

TextToInt(text) ==
  IF text[1] = "-" THEN -DigitsToNat(Tail(text)) ELSE DigitsToNat(text)

\* The tokens json.dump writes for an int and for a str.
JsonNumber(n) == [kind |-> "number", text |-> IntToText(n)]
JsonString(str) == [kind |-> "string", text |-> str]

\* apply_blur_effects_for_frame, line 1582: the test that selects a rect.
UIActive(rect, f) == rect.start_frame <= f /\ f <= rect.end_frame

\* apply_blur_effects_for_frame, lines 1585-1588: the clipped rect.
UIClip(rect) ==
  LET x == Max(0, Min(rect.x, FrameWidth - 1))
      y == Max(0, Min(rect.y, FrameHeight - 1))
  IN  [x |-> x, y |-> y,
       width  |-> Max(1, Min(rect.width, FrameWidth - x)),
       height |-> Max(1, Min(rect.height, FrameHeight - y))]

\* lines 1590-1622 for the clipped rect c and the opacity pct.
UIBlendRoi(buf, roi, pct, blurred) ==
  IF roi = {} THEN buf
  ELSE [p \in Positions |-> IF p \in roi THEN Blend(buf[p], blurred[p], pct) ELSE buf[p]]

UIBlurClipped(buf, c, blur_type, pct) ==
  UIBlendRoi(buf, RoiPositions(c), pct, Transform(buf, c, blur_type, pct))

\* lines 1583-1622: one rect composited into result_frame.
UIApplyRect(buf, rect) ==
  UIBlurClipped(buf, UIClip(rect), rect.blur_type, OpacityPct(rect.intensity))

\* lines 1577-1579: confirmed regions, then the held rectangle.
RegionsToApply ==
  IF rectangle_held /\ held_rectangle # <<>>
  THEN regions \o held_rectangle
  ELSE regions

\* What one call of apply_blur_effects_for_frame composites frame f with.
UIComposited(f) ==
  [frame_number |-> f, used |-> RegionsToApply,
   selected |-> {i \in 1 .. Len(RegionsToApply) : UIActive(RegionsToApply[i], f)}]

\* process_video (UI), lines 1718-1731: the BlurRegion list built from
\* self.regions; what the engine's loop selects at frame f (lines 218-220).
EngineComposited(snapshot, f) ==
  [frame_number |-> f, used |-> snapshot,
   selected |-> {i \in 1 .. Len(snapshot) : EngineActive(snapshot[i], f)}]

\* Event handlers run from the main loop and from every root.update().
Dispatching == ui_pc \in {"idle", "video_update", "gif_update"}

uiSliderVars == <<opacity_var, blur_type_var, duration_var>>
uiFileVars == <<saved_file, saved_from>>
uiVideoVars == <<video_size>>
uiSettingsVars == <<uiSliderVars, uiFileVars, uiVideoVars>>
uiAuthoringVars == <<regions, pending_rectangle, held_rectangle, rectangle_held,
                     uiSettingsVars, start_second_var, current_second>>
uiGifVars == <<gif_frame_count, gif_processed, gif_log, gif_shapes, frame_skip, target_frames,
               duration_ms>>
uiExportVars == <<ui_pc, uiGifVars, preview_log, video_log>>

\* on_frame_change (lines 879-884).
OnFrameChange ==
  /\ Dispatching
  /\ \E value \in 0 .. MaxSeconds :
       /\ current_second' = value
       /\ start_second_var' = Str(value)
  /\ UNCHANGED <<regions, pending_rectangle, held_rectangle, rectangle_held,
                 uiSettingsVars, uiExportVars>>

\* The start second hold and confirm use (lines 1219-1224, 1285-1290).
StartSecond ==
  IF start_second_var # "" /\ ParseSecond(start_second_var) >= 0
  THEN ParseSecond(start_second_var)
  ELSE pending_rectangle[1].start_second

\* on_mouse_up (lines 1115-1190) after a drag, one of gestures; the pending
\* rectangle keeps the keys hold and confirm read.
MouseUp(gestures) ==
  /\ Dispatching
  /\ \E g \in gestures :
       LET x == Min(g[1], g[3])
           y == Min(g[2], g[4])
           width == Abs(g[3] - g[1])
           height == Abs(g[4] - g[2])
           photo_width == PhotoScale * FrameWidth
           photo_height == PhotoScale * FrameHeight
       IN  IF width > MinDragPixels /\ height > MinDragPixels
           THEN pending_rectangle' =
                  <<[x |-> (x * FrameWidth) \div photo_width,
                     y |-> (y * FrameHeight) \div photo_height,
                     width |-> (width * FrameWidth) \div photo_width,
                     height |-> (height * FrameHeight) \div photo_height,
                     start_second |-> IF start_second_var # ""
                                         /\ ParseSecond(start_second_var) >= 0
                                      THEN ParseSecond(start_second_var)
                                      ELSE current_second]>>
           ELSE UNCHANGED pending_rectangle
  /\ UNCHANGED <<regions, held_rectangle, rectangle_held, uiSettingsVars,
                 start_second_var, current_second, uiExportVars>>

OnMouseUp == MouseUp(Gestures)

\* The rectangle with its end counted from the start of the video.
FinalizedRectangleEndFromZero ==
  BlurRegion(pending_rectangle[1].x, pending_rectangle[1].y,
             pending_rectangle[1].width, pending_rectangle[1].height,
             blur_type_var, opacity_var,
             StartSecond * Fps, duration_var * Fps)

\* The rectangle hold and confirm build from the pending one (lines
\* 1228-1245, 1294-1311).
FinalizedRectangle ==
  BlurRegion(pending_rectangle[1].x, pending_rectangle[1].y,
             pending_rectangle[1].width, pending_rectangle[1].height,
             blur_type_var, opacity_var,
             StartSecond * Fps, (StartSecond + duration_var) * Fps)

\* hold_rectangle putting the rectangle it holds into self.regions.
HoldRectangleIntoRegions ==
  /\ Dispatching
  /\ IF rectangle_held /\ held_rectangle # <<>>
     THEN /\ rectangle_held' = FALSE
          /\ held_rectangle' = <<>>
          /\ UNCHANGED regions
     ELSE IF pending_rectangle # <<>> /\ Len(regions) < MaxRegions
     THEN /\ held_rectangle' = <<FinalizedRectangle>>
          /\ rectangle_held' = TRUE
          /\ regions' = Append(regions, FinalizedRectangle)
     ELSE UNCHANGED <<rectangle_held, held_rectangle, regions>>
  /\ UNCHANGED <<pending_rectangle, uiSettingsVars, start_second_var,
                 current_second, uiExportVars>>

\* hold_rectangle (lines 1205-1271).
HoldRectangle ==
  /\ Dispatching
  /\ IF rectangle_held /\ held_rectangle # <<>>
     THEN /\ rectangle_held' = FALSE
          /\ held_rectangle' = <<>>
     ELSE IF pending_rectangle # <<>>
     THEN /\ held_rectangle' = <<FinalizedRectangle>>
          /\ rectangle_held' = TRUE
     ELSE UNCHANGED <<rectangle_held, held_rectangle>>
  /\ UNCHANGED <<regions, pending_rectangle, uiSettingsVars, start_second_var,
                 current_second, uiExportVars>>

\* confirm_rectangle building the rectangle from the pending one and the
\* current settings even when one is held.
ConfirmRectangleFromSettings ==
  /\ Dispatching
  /\ Len(regions) < MaxRegions
  /\ IF rectangle_held /\ held_rectangle # <<>>
     THEN /\ regions' = Append(regions, FinalizedRectangle)
          /\ rectangle_held' = FALSE
          /\ held_rectangle' = <<>>
          /\ pending_rectangle' = <<>>
     ELSE IF pending_rectangle # <<>>
     THEN /\ regions' = Append(regions, FinalizedRectangle)
          /\ pending_rectangle' = <<>>
          /\ UNCHANGED <<rectangle_held, held_rectangle>>
     ELSE UNCHANGED <<regions, pending_rectangle, rectangle_held, held_rectangle>>
  /\ UNCHANGED <<uiSettingsVars, start_second_var, current_second, uiExportVars>>

\* confirm_rectangle (lines 1273-1325); the preview window it opens shows
\* the frame and changes nothing.
ConfirmRectangle ==
  /\ Dispatching
  /\ Len(regions) < MaxRegions
  /\ IF rectangle_held /\ held_rectangle # <<>>
     THEN /\ regions' = Append(regions, held_rectangle[1])
          /\ rectangle_held' = FALSE
          /\ held_rectangle' = <<>>
          /\ pending_rectangle' = <<>>
     ELSE IF pending_rectangle # <<>>
     THEN /\ regions' = Append(regions, FinalizedRectangle)
          /\ pending_rectangle' = <<>>
          /\ UNCHANGED <<rectangle_held, held_rectangle>>
     ELSE UNCHANGED <<regions, pending_rectangle, rectangle_held, held_rectangle>>
  /\ UNCHANGED <<uiSettingsVars, start_second_var, current_second, uiExportVars>>

\* update_rectangle_list (lines 1327-1360): the number of listbox entries,
\* the confirmed rectangles and then the held one.
ListboxSize == Len(regions) + (IF rectangle_held /\ held_rectangle # <<>> THEN 1 ELSE 0)

\* delete_selected_rectangle (lines 1362-1372) with an entry selected; the
\* HOLD entry's index is past the end of self.regions and `del` raises.
DeleteSelectedRectangle ==
  /\ Dispatching
  /\ \E index \in 0 .. ListboxSize - 1 :
       regions' = IF index < Len(regions) THEN RemoveAt(regions, index + 1) ELSE regions
  /\ UNCHANGED <<pending_rectangle, held_rectangle, rectangle_held, uiSettingsVars,
                 start_second_var, current_second, uiExportVars>>

\* clear_all_rectangles (lines 1374-1383).
ClearAllRectangles ==
  /\ Dispatching
  /\ regions' = <<>>
  /\ UNCHANGED <<pending_rectangle, held_rectangle, rectangle_held, uiSettingsVars,
                 start_second_var, current_second, uiExportVars>>

\* load_regions (lines 1661-1695) of a well-formed file.
LoadRegions ==
  /\ Dispatching
  /\ \E file \in RegionFiles : regions' = file
  /\ UNCHANGED <<pending_rectangle, held_rectangle, rectangle_held, uiSettingsVars,
                 start_second_var, current_second, uiExportVars>>

\* The duration slider is moved (lines 436-452, 762-774).
OnDurationChange ==
  /\ Dispatching
  /\ \E value \in 1 .. MaxDuration : duration_var' = value
  /\ UNCHANGED <<regions, pending_rectangle, held_rectangle, rectangle_held,
                 opacity_var, blur_type_var, uiFileVars, uiVideoVars, start_second_var,
                 current_second, uiExportVars>>

\* The intensity slider is moved (lines 335-350, 740-743).
OnIntensityChange ==
  /\ Dispatching
  /\ \E value \in IntensityValues : opacity_var' = value
  /\ UNCHANGED <<regions, pending_rectangle, held_rectangle, rectangle_held,
                 blur_type_var, duration_var, uiFileVars, uiVideoVars,
                 start_second_var, current_second, uiExportVars>>

\* A blur type is picked in the combobox (lines 290-312, 1192-1195).
OnBlurTypeChange ==
  /\ Dispatching
  /\ \E value \in BlurTypes : blur_type_var' = value
  /\ UNCHANGED <<regions, pending_rectangle, held_rectangle, rectangle_held,
                 opacity_var, duration_var, uiFileVars, uiVideoVars,
                 start_second_var, current_second, uiExportVars>>

\* The user types into the start entry (lines 387-396).
TypeStartSecond ==
  /\ Dispatching
  /\ \E text \in TypedTexts : start_second_var' = text
  /\ UNCHANGED <<regions, pending_rectangle, held_rectangle, rectangle_held,
                 uiSettingsVars, current_second, uiExportVars>>

\* A rect written without its intensity.
JsonDumpRegionWithoutIntensity(rect) ==
  [key \in {"x", "y", "width", "height", "blur_type", "pii_type",
            "start_frame", "end_frame"} |->
     IF key = "blur_type" THEN JsonString(rect.blur_type)
     ELSE IF key = "pii_type" THEN JsonString("custom_text")
     ELSE JsonNumber(rect[key])]

\* save_regions, lines 1641-1651: the object written for one rect.
JsonDumpRegion(rect) ==
  [key \in {"x", "y", "width", "height", "blur_type", "intensity", "pii_type",
            "start_frame", "end_frame"} |->
     IF key = "blur_type" THEN JsonString(rect.blur_type)
     ELSE IF key = "pii_type" THEN JsonString("custom_text")
     ELSE JsonNumber(rect[key])]

\* load_regions, lines 1676-1686: the rect built from one object of the
\* file (its pii_type is not part of a BlurRegion).
JsonLoadRegion(object) ==
  BlurRegion(TextToInt(object["x"].text), TextToInt(object["y"].text),
             TextToInt(object["width"].text), TextToInt(object["height"].text),
             object["blur_type"].text,
             IF "intensity" \in DOMAIN object
             THEN TextToInt(object["intensity"].text) ELSE DefaultOpacity,
             TextToInt(object["start_frame"].text),
             TextToInt(object["end_frame"].text))

\* save_regions (lines 1626-1659) with a file chosen.
SaveRegions ==
  /\ Dispatching
  /\ regions # <<>>
  /\ saved_file' = <<[k \in 1 .. Len(regions) |-> JsonDumpRegion(regions[k])]>>
  /\ saved_from' = regions
  /\ UNCHANGED <<regions, pending_rectangle, held_rectangle, rectangle_held,
                 uiSliderVars, uiVideoVars, start_second_var, current_second,
                 uiExportVars>>

\* load_regions (lines 1661-1695) of the file save_regions wrote.
LoadSavedRegions ==
  /\ Dispatching
  /\ saved_file # <<>>
  /\ regions' = [k \in 1 .. Len(saved_file[1]) |-> JsonLoadRegion(saved_file[1][k])]
  /\ UNCHANGED <<pending_rectangle, held_rectangle, rectangle_held, uiSettingsVars,
                 start_second_var, current_second, uiExportVars>>

\* The keys load_regions reads with region_data[...] (lines 1678-1686).
RequiredKeys == {"x", "y", "width", "height", "blur_type", "start_frame", "end_frame"}

JsonWithoutKey(object, key) == [k \in DOMAIN object \ {key} |-> object[k]]

\* Region files with one record lacking one required key.
DamagedFiles ==
  UNION {{[k \in 1 .. Len(file) |->
             IF k = n THEN JsonWithoutKey(JsonDumpRegion(file[k]), key)
             ELSE JsonDumpRegion(file[k])] :
          n \in 1 .. Len(file), key \in RequiredKeys} : file \in RegionFiles}

\* The record at which the loop of lines 1676-1688 raises KeyError.
FirstBadRecord(objects) ==
  CHOOSE n \in 1 .. Len(objects) :
    /\ ~(RequiredKeys \subseteq DOMAIN objects[n])
    /\ \A m \in 1 .. n - 1 : RequiredKeys \subseteq DOMAIN objects[m]

\* load_regions (lines 1661-1695) when it ends in its except branch: open
\* or json.load raises (lines 1670-1671), or a record lacks a required key
\* after self.regions.clear() of line 1674 has run.
LoadRegionsFails ==
  /\ Dispatching
  /\ \/ UNCHANGED regions
     \/ \E objects \in DamagedFiles :
          regions' = [k \in 1 .. FirstBadRecord(objects) - 1 |->
                        JsonLoadRegion(objects[k])]
  /\ UNCHANGED <<pending_rectangle, held_rectangle, rectangle_held, uiSettingsVars,
                 start_second_var, current_second, uiExportVars>>

\* preview_video (lines 1495-1564) with apply_blur_effects (1566-1570).
PreviewVideo ==
  /\ ui_pc = "idle"
  /\ Len(regions) > 0 \/ (rectangle_held /\ held_rectangle # <<>>)
  /\ preview_log' = <<UIComposited(current_second * Fps)>>
  /\ ui_pc' = "preview"
  /\ UNCHANGED <<uiAuthoringVars, uiGifVars, video_log>>

\* The preview window is closed.
ClosePreview ==
  /\ ui_pc = "preview"
  /\ preview_log' = <<>>
  /\ ui_pc' = "idle"
  /\ UNCHANGED <<uiAuthoringVars, uiGifVars, video_log>>

\* process_video (UI), lines 1697-1715: the checks, the file dialog, then
\* root.update(), which runs the handlers of the events that are waiting.
ProcessVideoStart ==
  /\ ui_pc = "idle"
  /\ Len(regions) > 0
  /\ ui_pc' = "video_update"
  /\ UNCHANGED <<uiAuthoringVars, uiGifVars, preview_log, video_log>>

\* lines 1717-1744: the BlurRegion list is built from self.regions and the
\* engine's process_video runs to its end on it; no handler runs meanwhile.
ProcessVideoRun ==
  /\ ui_pc = "video_update"
  /\ video_log' = [k \in 1 .. UiVideoFrames |-> EngineComposited(regions, k - 1)]
  /\ ui_pc' = "video_done"
  /\ UNCHANGED <<uiAuthoringVars, uiGifVars, preview_log>>

\* The result dialog is dismissed.
ProcessVideoReturn ==
  /\ ui_pc = "video_done"
  /\ video_log' = <<>>
  /\ ui_pc' = "idle"
  /\ UNCHANGED <<uiAuthoringVars, uiGifVars, preview_log>>

\* line 1871.
\* export_as_gif, line 1861.
MaxGifWidth == 800

\* Sizes of source videos: at and just above max_width, a common wide one,
\* and one whose scaled height is a whole number that the float product
\* misses.
GifSizes == {<<800, 600>>, <<801, 600>>, <<1920, 1080>>, <<928, 580>>}

\* The sizes of GifSizes for which height * (800 / width), evaluated in
\* double precision as lines 1863-1865 do, falls below the exact quotient
\* height * 800 / width, itself a whole number.
FloatProductBelow == {<<928, 580>>}

\* The resize keeping the source height.
ScaledHeightKeepingHeight(width, height) == height

\* lines 1863-1865: int(height * scale) with scale = max_width / width.
ScaledHeight(width, height) ==
  IF <<width, height>> \in FloatProductBelow
  THEN (height * MaxGifWidth) \div width - 1
  ELSE (height * MaxGifWidth) \div width

\* lines 1862-1868 and 1891-1893: the shape of a frame appended to frames.
GifFrameShape(width, height) ==
  IF width > MaxGifWidth
  THEN <<MaxGifWidth, ScaledHeight(width, height)>>
  ELSE <<width, height>>

\* frame_skip computed for twice the target.
FrameSkipForDoubleTarget(total_frames, target) ==
  Max(1, total_frames \div (2 * target))

\* frame_skip with the quotient rounded up.
FrameSkipRoundedUp(total_frames, target) ==
  Max(1, (total_frames + target - 1) \div target)

\* line 1871.
FrameSkip(total_frames, target) == Max(1, total_frames \div target)

\* line 1924: int(1000 / (fps / frame_skip)); int() drops the fraction.
DurationMs(fps, skip) == (1000 * skip) \div fps

\* export_as_gif, lines 1746-1879: the checks, the quality and file dialogs,
\* the capture opened, then root.update() before the loop.
ExportGifStart ==
  /\ ui_pc = "idle"
  /\ Len(regions) > 0
  /\ \E opened \in BOOLEAN, target \in {TargetFramesHigh, TargetFramesLow} :
       /\ ui_pc' = IF opened THEN "gif_update" ELSE "idle"
       /\ target_frames' = IF opened THEN target ELSE 0
       /\ frame_skip' = IF opened THEN FrameSkip(video_frames, target) ELSE 0
  /\ duration_ms' = 0
  /\ gif_frame_count' = 0
  /\ gif_processed' = 0
  /\ gif_log' = <<>>
  /\ gif_shapes' = <<>>
  /\ UNCHANGED <<uiAuthoringVars, preview_log, video_log>>

\* root.update() returns (lines 1879, 1909).
ExportGifResume ==
  /\ ui_pc = "gif_update"
  /\ ui_pc' = "gif_loop"
  /\ UNCHANGED <<uiAuthoringVars, uiGifVars, preview_log, video_log>>

\* lines 1881-1911: one iteration of the GIF loop.
ExportGifFrame ==
  /\ ui_pc = "gif_loop"
  /\ gif_frame_count < video_frames
  /\ IF gif_frame_count % frame_skip = 0
     THEN /\ gif_log' = Append(gif_log, UIComposited(gif_frame_count))
          /\ gif_shapes' = Append(gif_shapes, GifFrameShape(video_size[1], video_size[2]))
          /\ gif_processed' = gif_processed + 1
          /\ ui_pc' = IF (gif_processed + 1) % GifUpdateEvery = 0
                      THEN "gif_update" ELSE "gif_loop"
     ELSE UNCHANGED <<gif_log, gif_shapes, gif_processed, ui_pc>>
  /\ gif_frame_count' = gif_frame_count + 1
  /\ UNCHANGED <<uiAuthoringVars, frame_skip, target_frames, duration_ms,
                 preview_log, video_log>>

\* lines 1881-1884 and 1913-1936: the stream ends and the GIF is saved.
ExportGifFinish ==
  /\ ui_pc = "gif_loop"
  /\ gif_frame_count = video_frames
  /\ ui_pc' = "gif_done"
  /\ duration_ms' = DurationMs(Fps, frame_skip)
  /\ UNCHANGED <<uiAuthoringVars, gif_frame_count, gif_processed, gif_log,
                 gif_shapes, frame_skip, target_frames, preview_log, video_log>>

\* The result dialog is dismissed.
ExportGifReturn ==
  /\ ui_pc = "gif_done"
  /\ gif_log' = <<>>
  /\ gif_shapes' = <<>>
  /\ gif_frame_count' = 0
  /\ gif_processed' = 0
  /\ frame_skip' = 0
  /\ target_frames' = 0
  /\ duration_ms' = 0
  /\ ui_pc' = "idle"
  /\ UNCHANGED <<uiAuthoringVars, preview_log, video_log>>

NextUI ==
  \/ OnFrameChange /\ UNCHANGED engVars
  \/ OnMouseUp /\ UNCHANGED engVars
  \/ HoldRectangle /\ UNCHANGED engVars
  \/ ConfirmRectangle /\ UNCHANGED engVars
  \/ DeleteSelectedRectangle /\ UNCHANGED engVars
  \/ ClearAllRectangles /\ UNCHANGED engVars
  \/ LoadRegions /\ UNCHANGED engVars
  \/ PreviewVideo /\ UNCHANGED engVars
  \/ ClosePreview /\ UNCHANGED engVars
  \/ ProcessVideoStart /\ UNCHANGED engVars
  \/ ProcessVideoRun /\ UNCHANGED engVars
  \/ ProcessVideoReturn /\ UNCHANGED engVars
  \/ ExportGifStart /\ UNCHANGED engVars
  \/ ExportGifResume /\ UNCHANGED engVars
  \/ ExportGifFrame /\ UNCHANGED engVars
  \/ ExportGifFinish /\ UNCHANGED engVars
  \/ ExportGifReturn /\ UNCHANGED engVars

\* __init__ (lines 16-72) followed by load_video (lines 781-821).
InitUI ==
  /\ video_frames = UiVideoFrames
  /\ blur_regions = <<>>
  /\ auto_detect = FALSE
  /\ eng_pc = "idle"
  /\ EngineIdleState
  /\ regions = <<>>
  /\ pending_rectangle = <<>>
  /\ held_rectangle = <<>>
  /\ rectangle_held = FALSE
  /\ opacity_var = DefaultOpacity
  /\ blur_type_var = "gaussian"
  /\ duration_var = 1
  /\ start_second_var = Str(0)
  /\ current_second = 0
  /\ saved_file = <<>>
  /\ saved_from = <<>>
  /\ video_size = DefaultVideoSize
  /\ gif_shapes = <<>>
  /\ ui_pc = "idle"
  /\ gif_frame_count = 0
  /\ gif_processed = 0
  /\ frame_skip = 0
  /\ target_frames = 0
  /\ duration_ms = 0
  /\ gif_log = <<>>
  /\ preview_log = <<>>
  /\ video_log = <<>>

SpecUI == InitUI /\ [][NextUI]_vars

(***************************************************************************)
(* export_as_gif on videos of every length up to MaxGifFrames, with one    *)
(* confirmed region.                                                       *)
(***************************************************************************)
MaxGifFrames == 150

NextGif ==
  \/ ExportGifStart /\ UNCHANGED engVars
  \/ ExportGifResume /\ UNCHANGED engVars
  \/ ExportGifFrame /\ UNCHANGED engVars
  \/ ExportGifFinish /\ UNCHANGED engVars
  \/ ExportGifReturn /\ UNCHANGED engVars

InitGif ==
  /\ video_frames \in 1 .. MaxGifFrames
  /\ blur_regions = <<>>
  /\ auto_detect = FALSE
  /\ eng_pc = "idle"
  /\ EngineIdleState
  /\ regions = <<BlurRegion(0, 0, 2, 1, "gaussian", DefaultOpacity, 0, Fps)>>
  /\ pending_rectangle = <<>>
  /\ held_rectangle = <<>>
  /\ rectangle_held = FALSE
  /\ opacity_var = DefaultOpacity
  /\ blur_type_var = "gaussian"
  /\ duration_var = 1
  /\ start_second_var = Str(0)
  /\ current_second = 0
  /\ saved_file = <<>>
  /\ saved_from = <<>>
  /\ video_size \in GifSizes
  /\ gif_shapes = <<>>
  /\ ui_pc = "idle"
  /\ gif_frame_count = 0
  /\ gif_processed = 0
  /\ frame_skip = 0
  /\ target_frames = 0
  /\ duration_ms = 0
  /\ gif_log = <<>>
  /\ preview_log = <<>>
  /\ video_log = <<>>

SpecGif == InitGif /\ [][NextGif]_vars

(***************************************************************************)
(* The authoring workflow: draw, hold, release, confirm, delete and clear, *)
(* with the position slider, the duration slider and the start entry.      *)
(***************************************************************************)
NextAuthoring ==
  \/ OnFrameChange /\ UNCHANGED engVars
  \/ OnDurationChange /\ UNCHANGED engVars
  \/ TypeStartSecond /\ UNCHANGED engVars
  \/ OnMouseUp /\ UNCHANGED engVars
  \/ HoldRectangle /\ UNCHANGED engVars
  \/ ConfirmRectangle /\ UNCHANGED engVars
  \/ DeleteSelectedRectangle /\ UNCHANGED engVars
  \/ ClearAllRectangles /\ UNCHANGED engVars

SpecAuthoring == InitUI /\ [][NextAuthoring]_vars

(***************************************************************************)
(* Region lists authored or loaded, saved, changed and loaded back.        *)
(***************************************************************************)
NextPersist ==
  \/ OnFrameChange /\ UNCHANGED engVars
  \/ OnMouseUp /\ UNCHANGED engVars
  \/ ConfirmRectangle /\ UNCHANGED engVars
  \/ DeleteSelectedRectangle /\ UNCHANGED engVars
  \/ ClearAllRectangles /\ UNCHANGED engVars
  \/ LoadRegions /\ UNCHANGED engVars
  \/ SaveRegions /\ UNCHANGED engVars
  \/ LoadSavedRegions /\ UNCHANGED engVars
  \/ LoadRegionsFails /\ UNCHANGED engVars

SpecPersist == InitUI /\ [][NextPersist]_vars

(***************************************************************************)
(* The hold workflow up to the first confirmation: rectangles drawn, held  *)
(* and released while the intensity, the blur type, the duration and the   *)
(* start entry are edited; the behaviour ends when a rectangle is          *)
(* confirmed.                                                              *)
(***************************************************************************)
NextHold ==
  /\ regions = <<>>
  /\ \/ OnIntensityChange /\ UNCHANGED engVars
     \/ OnBlurTypeChange /\ UNCHANGED engVars
     \/ OnDurationChange /\ UNCHANGED engVars
     \/ TypeStartSecond /\ UNCHANGED engVars
     \/ MouseUp(HoldGestures) /\ UNCHANGED engVars
     \/ HoldRectangle /\ UNCHANGED engVars
     \/ ConfirmRectangle /\ UNCHANGED engVars

SpecHold == InitUI /\ [][NextHold]_vars

(***************************************************************************)
(* Vocabulary of the properties.                                           *)
(***************************************************************************)
\* The frame index the log and the last written buffer belong to.
LastIndex == writes[Len(writes)]

Applied(i) == \E j \in 1 .. Len(calls) : calls[j].index = i

\* Membership as the specification words it: start <= f, and end open or f <= end.
SpecActive(r, f) ==
  r.start_frame <= f /\ (r.end_frame = OpenSentinel \/ f <= r.end_frame)

\* The pixels of a region's clipped rect.
ClippedPixels(r) == RoiPositions(EngineClip(r))

(***************************************************************************)
(* C1: in full-video export a region's effect is applied to frame f if and *)
(* only if start_frame <= f and (end_frame = -1 or f <= end_frame), both   *)
(* bounds inclusive.                                                       *)
(***************************************************************************)
C1_ExportMembership ==
  writes # <<>> =>
    \A i \in 1 .. Len(blur_regions) :
      Applied(i) <=> SpecActive(blur_regions[i], LastIndex)

\* Frame 3 of a run whose list holds a (1, 2) region, not applied, and a
\* (2, open) region, applied.
C1_Witness ==
  /\ writes # <<>>
  /\ LastIndex = 3
  /\ \E i, k \in 1 .. Len(blur_regions) :
       /\ blur_regions[i].start_frame = 1 /\ blur_regions[i].end_frame = 2
       /\ blur_regions[k].start_frame = 2 /\ blur_regions[k].end_frame = OpenSentinel
       /\ ~Applied(i)
       /\ Applied(k)

(***************************************************************************)
(* C2 (as claimed): whatever the region list and the frame, the preview    *)
(* and the animated-image export select, among the regions they composite  *)
(* a frame with, exactly the regions the full-video export selects at that *)
(* frame.                                                                  *)
(***************************************************************************)
C2_ConsumersAgree ==
  /\ \A k \in 1 .. Len(preview_log) :
       preview_log[k] = EngineComposited(preview_log[k].used, preview_log[k].frame_number)
  /\ \A k \in 1 .. Len(gif_log) :
       gif_log[k] = EngineComposited(gif_log[k].used, gif_log[k].frame_number)

(***************************************************************************)
(* C3 (as claimed): R1 black_box then R2 white_box, both applied to the    *)
(* frame: every pixel of the overlap is white and every pixel of R1        *)
(* outside R2 is black, whatever the stored intensities in [10, 100].      *)
(***************************************************************************)
StackCase ==
  /\ writes # <<>>
  /\ Len(blur_regions) = 2
  /\ blur_regions[1].blur_type = "black_box"
  /\ blur_regions[2].blur_type = "white_box"
  /\ Len(calls) = 2
  /\ calls[1].path = "applied"
  /\ calls[2].path = "applied"

FullWeightPct == 84

ActiveRegionsAt(f) ==
  {blur_regions[i] : i \in {k \in 1 .. Len(blur_regions) : SpecActive(blur_regions[k], f)}}
  \cup {calls[j].region : j \in {k \in 1 .. Len(calls) : calls[k].index = 0}}

C4_OutsidePixelsUntouched ==
  writes # <<>> =>
    \A p \in Positions :
      (\A r \in ActiveRegionsAt(LastIndex) : p \notin ClippedPixels(r))
        => frame[p] = SourceFrame(LastIndex)[p]

\* A written frame with an active region that changed a pixel and left
\* another one, outside its rect, as decoded.
C4_Witness ==
  /\ writes # <<>>
  /\ ActiveRegionsAt(LastIndex) # {}
  /\ \E p, q \in Positions :
       /\ \A r \in ActiveRegionsAt(LastIndex) : p \notin ClippedPixels(r)
       /\ frame[p] = SourceFrame(LastIndex)[p]
       /\ frame[q] # SourceFrame(LastIndex)[q]

C6_FailureSkipsOneRegion ==
  writes # <<>> =>
    \A j \in 1 .. Len(calls) :
      calls[j].path = "error" =>
        /\ ~calls[j].changed
        /\ frame = CompositeFrame(RemoveAt(blur_regions, calls[j].index),
                                  auto_detect, LastIndex, 0).buf
        /\ \A i \in 1 .. Len(blur_regions) :
             SpecActive(blur_regions[i], LastIndex) => Applied(i)
        /\ Len(writes) = decoded
        /\ frame_count = LastIndex + 1
        /\ results.error = "None" /\ frame_count < video_frames => eng_pc = "loop"

\* A frame on which one region failed and another one changed pixels.
C6_Witness ==
  /\ writes # <<>>
  /\ eng_pc = "loop"
  /\ \E j, k \in 1 .. Len(calls) :
       /\ calls[j].path = "error"
       /\ calls[k].path = "applied"
       /\ calls[k].changed
  /\ frame # SourceFrame(LastIndex)

(***************************************************************************)
(* C7: when the source cannot be opened, process_video returns             *)
(* processing_successful = false with an error, and no writer is created   *)
(* or written.                                                             *)
(***************************************************************************)
C7_SourceOpenFailure ==
  cap_state = "unopened" =>
    /\ eng_pc = "returned"
    /\ ~results.processing_successful
    /\ results.error # "None"
    /\ out_state = "none"
    /\ writes = <<>>
    /\ out_file = 0

C7_Witness == cap_state = "unopened" /\ eng_pc = "returned"

(***************************************************************************)
(* C8 (as claimed): process_video never returns processing_successful =    *)
(* true for an export whose frames were not all put in the output.         *)
(***************************************************************************)
C8_SinkFailureReported ==
  eng_pc = "returned" /\ out_file < decoded =>
    ~results.processing_successful /\ results.error # "None"

(***************************************************************************)
(* C9 (as claimed): apply_blur_region leaves the buffer it is given as it  *)
(* was and returns a buffer that is not the one it was given, on every     *)
(* path.                                                                   *)
(***************************************************************************)
C9_NeverAliasesInput ==
  \A j \in 1 .. Len(calls) : calls[j].input_kept /\ ~calls[j].same_object

(***************************************************************************)
(* C10 (as claimed): all the frames of one export run, video or animated   *)
(* image, are composited with the same regions.                            *)
(***************************************************************************)
C10_RegionsFixedDuringExport ==
  /\ \A j, k \in 1 .. Len(gif_log) : gif_log[j].used = gif_log[k].used
  /\ \A j, k \in 1 .. Len(video_log) : video_log[j].used = video_log[k].used

\* The rect as stored lies partly or wholly outside the frame.
OutsideFrame(r) ==
  \/ r.x < 0 \/ r.y < 0
  \/ r.x + r.width > FrameWidth \/ r.y + r.height > FrameHeight

\* A clipped rect lies inside the frame.
InsideFrame(c) ==
  /\ 0 <= c.x /\ c.x < FrameWidth
  /\ 0 <= c.y /\ c.y < FrameHeight
  /\ c.x + c.width <= FrameWidth
  /\ c.y + c.height <= FrameHeight

(***************************************************************************)
(* C14 (as claimed): the rect of every region handed to apply_blur_region  *)
(* is clipped to 0 <= x < W, 0 <= y < H, x + width <= W, y + height <= H,  *)
(* and so is the rect the preview/animated compositor clips.               *)
(***************************************************************************)
C14_ClippedRectInsideFrame ==
  \A j \in 1 .. Len(calls) :
    /\ InsideFrame(EngineClip(calls[j].region))
    /\ InsideFrame(UIClip(calls[j].region))

\* A region's stored intensity clamped into [10, 100].
ClampedIntensity(r) == Max(10, Min(100, r.intensity))

(***************************************************************************)
(* C15: for a region whose rect is partly or wholly outside the frame,     *)
(* apply_blur_region computes a width and a height of at least 1 and       *)
(* returns a frame, whether or not a call inside it raises.                *)
(***************************************************************************)
C15_OutsideRectsClipAndReturn ==
  \A j \in 1 .. Len(calls) :
    OutsideFrame(calls[j].region) =>
      /\ EngineClip(calls[j].region).width >= 1
      /\ EngineClip(calls[j].region).height >= 1
      /\ calls[j].path \in {"empty_roi", "error", "applied"}
      /\ DOMAIN calls[j].result = Positions
      /\ frame = calls[j].result

\* A rect wholly outside (x past the right edge), returned on the empty
\* path, and written.
C15_Witness ==
  /\ writes # <<>>
  /\ \E j \in 1 .. Len(calls) :
       /\ calls[j].region.x > FrameWidth
       /\ calls[j].region.width <= 0
       /\ calls[j].path = "empty_roi"

(***************************************************************************)
(* C16: for a stored intensity in [10, 100] the Gaussian kernel size is    *)
(* odd, and no smaller intensity gives a larger kernel and no larger one a *)
(* smaller kernel, in blur_engine_advanced.py and in blur_engine.py.       *)
(***************************************************************************)
C16_KernelOddAndMonotone ==
  \A j \in 1 .. Len(calls) :
    calls[j].region.blur_type = "gaussian" /\ calls[j].region.intensity \in 10 .. 100 =>
      LET pct == OpacityPct(calls[j].region.intensity)
      IN  /\ AdvancedKernelSize(pct) % 2 = 1
          /\ SimpleKernelSize(pct) % 2 = 1
          /\ \A i \in 10 .. 100 :
               /\ i <= pct => /\ AdvancedKernelSize(OpacityPct(i)) <= AdvancedKernelSize(pct)
                              /\ SimpleKernelSize(OpacityPct(i)) <= SimpleKernelSize(pct)
               /\ i >= pct => /\ AdvancedKernelSize(OpacityPct(i)) >= AdvancedKernelSize(pct)
                              /\ SimpleKernelSize(OpacityPct(i)) >= SimpleKernelSize(pct)

\* A Gaussian region applied at an intensity whose computed size,
\* int(15 + 0.5 * 86) = 58, is even.
C16_Witness ==
  \E j \in 1 .. Len(calls) :
    /\ calls[j].region.blur_type = "gaussian"
    /\ calls[j].region.intensity = 50
    /\ calls[j].path = "applied"
    /\ AdvancedKernelSize(50) = 59

(***************************************************************************)
(* C17: whatever intensity a region stores, the compositor's output is the *)
(* output for the intensity clamped into [10, 100], in the engine and in   *)
(* the preview/animated compositor.                                        *)
(***************************************************************************)
C17_StrengthFromClampedIntensity ==
  writes # <<>> =>
    \A j \in 1 .. Len(calls) :
      LET r == calls[j].region
          clamped == [r EXCEPT !.intensity = ClampedIntensity(r)]
      IN  /\ calls[j].path = "applied" =>
                calls[j].result =
                  ApplyBlurRegion(SourceFrame(LastIndex), clamped, FALSE).result
          /\ UIApplyRect(SourceFrame(LastIndex), r)
               = UIApplyRect(SourceFrame(LastIndex), clamped)

\* A region stored with intensity 5 and applied: the pixels are the ones
\* intensity 10 gives, and they differ from the decoded ones.
C17_Witness ==
  /\ writes # <<>>
  /\ \E j \in 1 .. Len(calls) :
       /\ calls[j].region.intensity = 5
       /\ calls[j].region.blur_type = "black_box"
       /\ calls[j].path = "applied"
       /\ calls[j].changed

(***************************************************************************)
(* C19 (as claimed): a region whose end_frame is below its start_frame,    *)
(* and is not -1, is applied at every frame from start_frame on.           *)
(***************************************************************************)
C19_EndBeforeStartIsOpen ==
  writes # <<>> =>
    \A i \in 1 .. Len(blur_regions) :
      /\ blur_regions[i].end_frame < blur_regions[i].start_frame
      /\ blur_regions[i].end_frame # OpenSentinel
      /\ blur_regions[i].start_frame <= LastIndex
      => Applied(i)

\* The frame indices retained for the GIF so far, in the order retained.
RetainedIndices == [k \in 1 .. Len(gif_log) |-> gif_log[k].frame_number]

(***************************************************************************)
(* C11: in export_as_gif frame_skip = max(1, total_frames // target_frames)*)
(* and the retained frames are exactly the decoded frames whose index is a *)
(* multiple of frame_skip, in increasing order; when total_frames is a     *)
(* positive multiple of target_frames, exactly target_frames frames are    *)
(* retained, at 0, frame_skip, 2 * frame_skip, ...                         *)
(***************************************************************************)
C11_GifSampling ==
  ui_pc \in {"gif_update", "gif_loop", "gif_done"} =>
    /\ frame_skip = Max(1, video_frames \div target_frames)
    /\ \A k \in 1 .. Len(gif_log) : RetainedIndices[k] = (k - 1) * frame_skip
    /\ \A f \in 0 .. gif_frame_count - 1 :
         f % frame_skip = 0 <=> \E k \in 1 .. Len(gif_log) : RetainedIndices[k] = f
    /\ ui_pc = "gif_done" =>
         /\ gif_frame_count = video_frames
         /\ video_frames % target_frames = 0 => Len(gif_log) = target_frames

\* The claim's example: 150 frames, target 15, frame_skip 10, 15 frames
\* retained, the last at index 140.
C11_Witness ==
  /\ ui_pc = "gif_done"
  /\ video_frames = 150
  /\ target_frames = TargetFramesLow
  /\ frame_skip = 10
  /\ Len(gif_log) = 15
  /\ gif_log[15].frame_number = 140

(***************************************************************************)
(* C20 (as claimed): the per-frame display duration of the GIF equals      *)
(* 1000 * frame_skip / fps rounded to the nearest integer.                 *)
(***************************************************************************)
C20_DurationRounded ==
  ui_pc = "gif_done" => duration_ms = RoundHalfEven(1000 * frame_skip, Fps)

\* A rectangle is held (hold_rectangle has acted and not released).
Held == rectangle_held /\ held_rectangle # <<>>

(***************************************************************************)
(* C13: a rectangle enters self.regions only through confirm_rectangle:    *)
(* on_mouse_up and hold_rectangle (hold or release) leave the list         *)
(* unchanged, confirm_rectangle with neither a pending nor a held          *)
(* rectangle leaves it unchanged, and a step that lengthens the list is a  *)
(* confirm step appending the held or the pending rectangle.               *)
(***************************************************************************)
C13_OnlyConfirmAddsRegions ==
  [][/\ OnMouseUp => regions' = regions
     /\ HoldRectangle => regions' = regions
     /\ (ConfirmRectangle /\ ~Held /\ pending_rectangle = <<>>) => regions' = regions
     /\ Len(regions') > Len(regions) =>
          /\ ConfirmRectangle
          /\ Held \/ pending_rectangle # <<>>
          /\ regions' = Append(regions, IF Held THEN held_rectangle[1]
                                        ELSE FinalizedRectangle)]_vars

\* One rectangle confirmed, and another one drawn and held that is not in
\* the list.
C13_Witness ==
  /\ Len(regions) = 1
  /\ Held
  /\ pending_rectangle # <<>>
  /\ held_rectangle[1] # regions[1]

(***************************************************************************)
(* C18: every region in self.regions, after any sequence of draw, hold,    *)
(* release, confirm, delete and clear, has start_frame <= end_frame.       *)
(***************************************************************************)
C18_AuthoredRangeOrdered ==
  \A i \in 1 .. Len(regions) : regions[i].start_frame <= regions[i].end_frame

\* The list is full, with a region that starts after second 0 and a region
\* that lasts the longest duration of the slider.
C18_Witness ==
  /\ Len(regions) = MaxRegions
  /\ \E i \in 1 .. Len(regions) : regions[i].start_frame >= Fps
  /\ \E i \in 1 .. Len(regions) :
       regions[i].end_frame - regions[i].start_frame = MaxDuration * Fps

(***************************************************************************)
(* C12: load_regions of the file save_regions wrote for a non-empty list   *)
(* gives a list equal to the saved one, in the same order, on x, y, width, *)
(* height, blur_type, intensity, start_frame and end_frame, whatever the   *)
(* list held before the load.                                              *)
(***************************************************************************)
C12_SaveLoadRoundTrip ==
  [][LoadSavedRegions => regions' = saved_from]_vars

\* A saved list of two regions, one open-ended and one with an intensity
\* other than the default, and a different list in place when it is loaded
\* back.
C12_Witness ==
  /\ saved_file # <<>>
  /\ Len(saved_from) = 2
  /\ \E i \in 1 .. 2 : saved_from[i].end_frame = OpenSentinel
  /\ \E i \in 1 .. 2 : saved_from[i].intensity # DefaultOpacity
  /\ regions # saved_from
  /\ regions # <<>>
  /\ saved_file[1][1]["end_frame"].text # saved_file[1][2]["end_frame"].text

(***************************************************************************)
(* C28 (as claimed): whenever process_video returns after having opened    *)
(* the source, the capture and the writer have both been released, on the  *)
(* normal path and on every error path.                                    *)
(***************************************************************************)
C28_HandlesReleasedOnReturn ==
  eng_pc = "returned" /\ cap_state # "unopened" =>
    /\ cap_state = "released"
    /\ out_state = "released"

(***************************************************************************)
(* C29: on every return path of process_video, processing_successful is    *)
(* true if and only if error is None.                                      *)
(***************************************************************************)
C29_SuccessIffNoError ==
  eng_pc = "returned" =>
    (results.processing_successful <=> results.error = "None")

\* A call that returned through the exception handler after frames were
\* written: not successful, with the error set.
C29_Witness ==
  /\ eng_pc = "returned"
  /\ cap_state = "open"
  /\ writes # <<>>
  /\ ~results.processing_successful
  /\ results.error = "exception"

\* The Gaussian calls of the frame whose stored intensity is in [10, 100].
GaussianCalls ==
  {j \in 1 .. Len(calls) : /\ calls[j].region.blur_type = "gaussian"
                           /\ calls[j].region.intensity \in 10 .. 100}

(***************************************************************************)
(* C22 (as claimed): for every intensity in [10, 100] the Gaussian kernel  *)
(* size is round(15 + o * 86) made odd, and the blur is applied once, a    *)
(* second time iff o > 0.7 and a third time iff o > 0.9.                   *)
(***************************************************************************)
C22_KernelRoundedAndPasses ==
  \A j \in GaussianCalls :
    LET i == calls[j].region.intensity
        rounded == RoundHalfEven(1500 + 86 * i, 100)
    IN  /\ AdvancedKernelSize(OpacityPct(i))
             = (IF rounded % 2 = 0 THEN rounded + 1 ELSE rounded)
        /\ GaussianPasses(OpacityPct(i))
             = 1 + (IF i > 70 THEN 1 ELSE 0) + (IF i > 90 THEN 1 ELSE 0)

\* The blend weights of opacity pct, in thousandths.
BlurWeight(pct) == Min(1000, 12 * pct)
OriginalWeight(pct) == 1000 - BlurWeight(pct)

(***************************************************************************)
(* C23: in the advanced compositor, at opacity >= 0.95 the pixels of the   *)
(* region are the transform output; below, each pixel is originalWeight *  *)
(* original + blurWeight * transformed with blurWeight = min(1, 1.2 * o)   *)
(* and originalWeight = 1 - blurWeight, both in [0, 1].  The same holds in *)
(* the preview/animated compositor.                                        *)
(***************************************************************************)
C23_BlendWeights ==
  writes # <<>> =>
    \A j \in 1 .. Len(calls) :
      calls[j].path = "applied" =>
        LET r == calls[j].region
            pct == ClampedIntensity(r)
            src == SourceFrame(LastIndex)
            out == Transform(src, EngineClip(r), r.blur_type, pct)
            expected(p) ==
              IF pct >= 95 THEN out[p]
              ELSE RoundHalfEven(src[p] * OriginalWeight(pct)
                                   + out[p] * BlurWeight(pct), 1000)
        IN  /\ BlurWeight(pct) \in 0 .. 1000
            /\ OriginalWeight(pct) \in 0 .. 1000
            /\ BlurWeight(pct) + OriginalWeight(pct) = 1000
            /\ \A p \in RoiPositions(EngineClip(r)) :
                 /\ calls[j].result[p] = expected(p)
                 /\ UIApplyRect(src, r)[p] = expected(p)

\* A black box at opacity 0.92: the weight is capped at 1 although the
\* opacity is below 0.95, and the region comes out black.
C23_Witness ==
  /\ writes # <<>>
  /\ \E j \in 1 .. Len(calls) :
       /\ calls[j].region.blur_type = "black_box"
       /\ calls[j].region.intensity = 92
       /\ calls[j].path = "applied"
       /\ BlurWeight(92) = 1000
       /\ \A p \in RoiPositions(EngineClip(calls[j].region)) :
            calls[j].result[p] = BlackValue

(***************************************************************************)
(* C21 (as claimed): every frame retained for the GIF has width <= 800; a  *)
(* source wider than 800 is resized to width 800 and height                *)
(* int(height * 800 / width), a source of width <= 800 keeps its size.     *)
(***************************************************************************)
C21_GifFrameSizeExact ==
  \A k \in 1 .. Len(gif_shapes) :
    /\ gif_shapes[k][1] <= 800
    /\ gif_shapes[k] =
         IF video_size[1] > 800
         THEN <<800, (video_size[2] * 800) \div video_size[1]>>
         ELSE video_size

(***************************************************************************)
(* C21 (amended): every frame retained for the GIF has width <= 800; a     *)
(* source of width <= 800 keeps its size; a wider one is resized to width  *)
(* 800 and to the height int(height * (800 / width)) computed in floating  *)
(* point, which is floor(height * 800 / width), or one less than that for  *)
(* some sizes where height * 800 / width is a whole number.                *)
(***************************************************************************)
C21_GifFrameSize ==
  \A k \in 1 .. Len(gif_shapes) :
    LET width == video_size[1]
        height == video_size[2]
        quotient == (height * 800) \div width
    IN  /\ gif_shapes[k][1] <= 800
        /\ width <= 800 => gif_shapes[k] = video_size
        /\ width > 800 =>
             /\ gif_shapes[k][1] = 800
             /\ gif_shapes[k][2] \in {quotient, quotient - 1}
             /\ (height * 800) % width # 0 => gif_shapes[k][2] = quotient

\* A 1920 x 1080 video exported: every frame of the GIF is 800 x 450.
C21_Witness ==
  /\ ui_pc = "gif_done"
  /\ video_size = <<1920, 1080>>
  /\ Len(gif_shapes) >= TargetFramesLow
  /\ gif_shapes[Len(gif_shapes)] = <<800, 450>>

(***************************************************************************)
(* C30: an export over N decoded frames with target count t retains N      *)
(* frames when N < t and between t and 2 * t - 1 frames when N >= t; the   *)
(* number retained is ceil(N / frame_skip).                                *)
(***************************************************************************)
C30_RetainedCount ==
  ui_pc = "gif_done" =>
    /\ Len(gif_log) = (video_frames + frame_skip - 1) \div frame_skip
    /\ video_frames < target_frames => Len(gif_log) = video_frames
    /\ video_frames >= target_frames =>
         /\ target_frames <= Len(gif_log)
         /\ Len(gif_log) <= 2 * target_frames - 1

\* 29 frames at target 15: frame_skip is 1 and all 29 = 2 * 15 - 1 frames
\* are retained.
C30_Witness ==
  /\ ui_pc = "gif_done"
  /\ target_frames = TargetFramesLow
  /\ video_frames = 2 * TargetFramesLow - 1
  /\ Len(gif_log) = 2 * TargetFramesLow - 1

(***************************************************************************)
(* C24 (as claimed): a rectangle that is held but not confirmed never      *)
(* changes an exported output: on every frame of the video export and of   *)
(* the animated-image export, only confirmed regions are applied.          *)
(***************************************************************************)
C24_ExportsUseConfirmedOnly ==
  [][/\ Len(gif_log') > Len(gif_log) =>
          gif_log'[Len(gif_log')].selected \subseteq 1 .. Len(regions)
     /\ Len(video_log') > Len(video_log) =>
          \A k \in 1 .. Len(video_log') : video_log'[k].used = regions]_vars

(***************************************************************************)
(* C26 (as claimed): every entry of the rectangle listbox corresponds to a *)
(* confirmed region at the same index, so delete_selected_rectangle always *)
(* removes the selected region and never fails with an index out of range. *)
(***************************************************************************)
C26_ListboxEntriesAreRegions ==
  \A index \in 0 .. ListboxSize - 1 : index < Len(regions)

(***************************************************************************)
(* C27: when load_regions fails, on an unreadable file or on a record      *)
(* missing a required key, the confirmed region list is left exactly as it *)
(* was before the load was attempted.                                      *)
(***************************************************************************)
C27_FailedLoadKeepsRegions ==
  [][LoadRegionsFails => regions' = regions]_vars

(***************************************************************************)
(* C25: when a rectangle is held, confirm_rectangle appends exactly that   *)
(* held rectangle, whose geometry, blur type, intensity and frame range    *)
(* were fixed when it was held and are changed by no slider change,        *)
(* start-time edit or new drawing made while it is held; the region list   *)
(* is then longer by exactly one, and the held and the pending rectangle   *)
(* are both cleared.                                                       *)
(***************************************************************************)
C25_ConfirmAppendsHeldRectangle ==
  [][/\ (~Held /\ Held') => held_rectangle' = <<FinalizedRectangle>>
     /\ (Held /\ Held') => held_rectangle' = held_rectangle
     /\ (Held /\ regions' # regions) =>
          /\ regions' = Append(regions, held_rectangle[1])
          /\ Len(regions') = Len(regions) + 1
          /\ held_rectangle' = <<>>
          /\ ~rectangle_held'
          /\ pending_rectangle' = <<>>]_vars

\* The held rectangle was confirmed after the intensity, the blur type, the
\* duration and the start entry had all been changed since the hold: the
\* confirmed region differs from the current settings in each of them.
C25_Witness ==
  /\ Len(regions) = 1
  /\ ~Held
  /\ pending_rectangle = <<>>
  /\ regions[1].intensity # opacity_var
  /\ regions[1].blur_type # blur_type_var
  /\ regions[1].end_frame - regions[1].start_frame # duration_var * Fps
  /\ ParseSecond(start_second_var) >= 0
  /\ regions[1].start_frame # ParseSecond(start_second_var) * Fps
  /\ regions[1].x = 1

====
